---- MODULE Spec2Model ----
(***************************************************************************)
(* Model of scripts/clean_grafana_folders.py: a linear script that lists   *)
(* the folders of a Grafana instance over HTTP and issues one DELETE per   *)
(* listed folder, printing one result line per folder.                     *)
(*                                                                         *)
(* Strings that the script inspects (the base URL, the credential) are     *)
(* sequences of one-character strings, so that endswith, slicing and the   *)
(* substring test `in` are computed as Python computes them.               *)
(***************************************************************************)
EXTENDS Integers, Sequences, FiniteSets, TLC

(* ------------------------------ bounds -------------------------------- *)
MaxFolders == 3
MaxRuns == 2
MaxUrlLen == 3
MaxAuthParts == 2

(* --------------------------- string helpers --------------------------- *)
\* Python: sub in s  (substring test on character sequences)
Contains(sub, s) ==
    \E k \in 0..(Len(s) - Len(sub)) : SubSeq(s, k + 1, k + Len(sub)) = sub

\* Python: s.startswith(pre)
StartsWith(pre, s) ==
    Len(s) >= Len(pre) /\ SubSeq(s, 1, Len(pre)) = pre

\* Python: s.endswith("/")
EndsWithSlash(s) == Len(s) > 0 /\ s[Len(s)] = "/"

BasicLit == <<"B", "a", "s", "i", "c">>
BearerLit == <<"B", "e", "a", "r", "e", "r">>
BearerPrefix == BearerLit \o <<" ">>

RECURSIVE Flatten(_)
Flatten(ss) == IF ss = <<>> THEN <<>> ELSE Head(ss) \o Flatten(Tail(ss))

SeqsUpTo(S, n) == UNION {[1..k -> S] : k \in 0..n}

(* ------------------------------ inputs -------------------------------- *)
\* Values a user can put in GRAFANA_URL / type at the prompt.
UrlChars == {"h", "/"}
UrlInputs == SeqsUpTo(UrlChars, MaxUrlLen)

\* Values a user can put in GRAFANA_AUTH / type at the prompt: built from
\* fragments so that the literals occur as a prefix, in the middle, in
\* another letter case, or not at all.
AuthParts == {BasicLit, BearerLit, <<"b", "a", "s", "i", "c">>, <<" ">>, <<"t">>}
AuthInputs == {Flatten(ps) : ps \in SeqsUpTo(AuthParts, MaxAuthParts)}

\* What the user types when a prompt is shown (the variable is unset).
TypedUrl == <<"h", "/">>
TypedAuth == BasicLit \o <<" ", "t">>

\* The environment of the runs that exercise the listing and the loop.
DefaultUrl == <<"h", "/">>
DefaultAuth == <<"t">>

\* Folder titles the server may hold.
Titles == {"General", "general", "Team"}

\* A folder object of the listing: {"uid": ..., "title": ...}
Folder(u, t) == [uid |-> u, title |-> t]

\* The folders of the remote at the start: any titles, uid by position.
RemoteInputs ==
    {[k \in 1..n |-> Folder(ToString(k), ts[k])] :
        n \in 0..MaxFolders, ts \in [1..MaxFolders -> Titles]}

\* Responses the server may give to GET /api/folders (status);
\* the body is either the JSON listing or text that is not JSON.
ListStatuses == {200, 300, 401, 500}
ListBodies == {"listing", "notjson"}

\* Responses the server may give to DELETE /api/folders/{uid}.
DeleteResponses ==
    { [status_code |-> 200, text |-> "deleted"],
      [status_code |-> 403, text |-> "forbidden"],
      [status_code |-> 404, text |-> "not found"] }

(* ------------------------------ state --------------------------------- *)
VARIABLES
    pc,            \* position of the script
    env_url,       \* value of GRAFANA_URL in the environment (<<>>: unset)
    env_auth,      \* value of GRAFANA_AUTH in the environment (<<>>: unset)
    grafana_url,   \* local variable grafana_url
    headers,       \* headers["Authorization"]
    folders,       \* local variable folders (the parsed listing)
    idx,           \* position of the for loop in folders
    remote,        \* folders held by the Grafana server
    log,           \* console lines and HTTP requests of this run, in order
    runs           \* number of runs of the script started so far

vars == <<pc, env_url, env_auth, grafana_url, headers, folders, idx, remote, log, runs>>

(* ------------------------------ events -------------------------------- *)
Event(k, t, u, n, x, url, auth) ==
    [kind |-> k, title |-> t, uid |-> u, n |-> n, text |-> x, url |-> url, auth |-> auth]

Console(k, t, u, n, x) == Event(k, t, u, n, x, <<>>, <<>>)
Request(k, u, url, auth) == Event(k, "", u, 0, "", url, auth)
\* what the HTTP call gave back: a response (status, body) or an exception
Response(status, body) == Event("response", "", "", status, body, <<>>, <<>>)
Raised == Event("raised", "", "", 0, "", <<>>, <<>>)

ListPath == <<"/", "api", "/", "folders">>
DeletePath(u) == ListPath \o <<"/", u>>

(* --------------------------- pure helpers ----------------------------- *)
\* get_env_var: the environment value, or the typed value when it is empty
get_env_var(value, typed) == IF value = <<>> THEN typed ELSE value

\* variant: the credential is always wrapped as a bearer token
AuthHeaderAlwaysWraps(grafana_auth) == BearerPrefix \o grafana_auth

\* line 20: the Authorization header
AuthHeader(grafana_auth) ==
    IF Contains(BasicLit, grafana_auth) \/ Contains(BearerLit, grafana_auth)
    THEN grafana_auth
    ELSE BearerPrefix \o grafana_auth

\* variant: the URL is used as configured
StripSlashNever(url) == url

\* lines 24-25: remove trailing slash
StripSlash(url) ==
    IF EndsWithSlash(url) THEN SubSeq(url, 1, Len(url) - 1) ELSE url

\* variant: only server errors raise
RaiseForStatusServerOnly(status) == 500 <= status /\ status < 600

\* requests: Response.raise_for_status raises HTTPError for 4xx and 5xx
RaiseForStatus(status) == 400 <= status /\ status < 600

\* variant: a 404 (the folder is already gone) counts as a success
ResultLineTolerates404(folder, r) ==
    IF r.status_code = 200 \/ r.status_code = 404
    THEN Console("deleted", folder.title, "", 0, "")
    ELSE Console("failed", folder.title, "", r.status_code, r.text)

\* lines 45-48: the line printed for a delete response
ResultLine(folder, r) ==
    IF r.status_code = 200
    THEN Console("deleted", folder.title, "", 0, "")
    ELSE Console("failed", folder.title, "", r.status_code, r.text)

\* the server: a DELETE answered with a 2xx status removed the folder
ServerAfter(rem, u, r) ==
    IF r.status_code >= 200 /\ r.status_code < 300
    THEN SelectSeq(rem, LAMBDA f : f.uid # u)
    ELSE rem

(* ------------------------------ actions ------------------------------- *)
Init ==
    /\ pc = "start"
    /\ env_url = DefaultUrl
    /\ env_auth = DefaultAuth
    /\ grafana_url = <<>>
    /\ headers = <<>>
    /\ folders = <<>>
    /\ idx = 0
    /\ remote \in RemoteInputs
    /\ log = <<>>
    /\ runs = 1

\* lines 12-13
Banner ==
    /\ pc = "start"
    /\ log' = log \o << Console("warning", "", "", 0, ""),
                        Console("backup_hint", "", "", 0, "") >>
    /\ pc' = "config"
    /\ UNCHANGED <<env_url, env_auth, grafana_url, headers, folders, idx, remote, runs>>

\* lines 15-25
Configure ==
    /\ pc = "config"
    /\ headers' = AuthHeader(get_env_var(env_auth, TypedAuth))
    /\ grafana_url' = StripSlash(get_env_var(env_url, TypedUrl))
    /\ pc' = "list"
    /\ UNCHANGED <<env_url, env_auth, folders, idx, remote, log, runs>>

\* variant: the count leaves out the folder the banner exempts
FoundLineNonGeneral(listing) ==
    Console("found", "", "", Len(SelectSeq(listing, LAMBDA f : f.title # "General")), "")

\* line 36
FoundLine(listing) == Console("found", "", "", Len(listing), "")

ListRequest == Request("GET", "", grafana_url \o ListPath, headers)

\* lines 28-34: requests.get raises (connection refused, DNS, ...)
ListRaises ==
    /\ pc = "list"
    /\ log' = log \o << ListRequest, Raised, Console("list_error", "", "", 0, "transport") >>
    /\ pc' = "done"
    /\ UNCHANGED <<env_url, env_auth, grafana_url, headers, folders, idx, remote, runs>>

\* lines 28-36: requests.get returns a response
ListResponds ==
    /\ pc = "list"
    /\ \E status \in ListStatuses, body \in ListBodies, json_error_is_request_exception \in BOOLEAN :
         IF RaiseForStatus(status)
         THEN /\ log' = log \o << ListRequest, Response(status, body),
                                  Console("list_error", "", "", status, "http") >>
              /\ pc' = "done"
              /\ UNCHANGED <<folders, idx>>
         ELSE IF body = "notjson"
         THEN \* response.json() raises; whether the handler of line 32 catches it
              \* depends on the requests version (JSONDecodeError or ValueError)
              IF json_error_is_request_exception
              THEN /\ log' = log \o << ListRequest, Response(status, body),
                                       Console("list_error", "", "", status, "json") >>
                   /\ pc' = "done"
                   /\ UNCHANGED <<folders, idx>>
              ELSE /\ log' = log \o << ListRequest, Response(status, body),
                                       Console("traceback", "", "", status, "json") >>
                   /\ pc' = "crashed"
                   /\ UNCHANGED <<folders, idx>>
         ELSE /\ folders' = remote
              /\ log' = log \o << ListRequest, Response(status, body), FoundLine(remote) >>
              /\ idx' = 1
              /\ pc' = "loop"
    /\ UNCHANGED <<env_url, env_auth, grafana_url, headers, remote, runs>>

DeleteRequest(folder) == Request("DELETE", folder.uid, grafana_url \o DeletePath(folder.uid), headers)

DeletingLine(folder) == Console("deleting", folder.title, folder.uid, 0, "")

\* variant: the loop stops at the first delete that is not answered with 200
DeleteRespondsStopsOnFailure ==
    /\ pc = "loop"
    /\ idx <= Len(folders)
    /\ \E r \in DeleteResponses :
         /\ log' = log \o << DeletingLine(folders[idx]), DeleteRequest(folders[idx]),
                             Response(r.status_code, r.text), ResultLine(folders[idx], r) >>
         /\ remote' = ServerAfter(remote, folders[idx].uid, r)
         /\ pc' = IF r.status_code = 200 THEN "loop" ELSE "done"
    /\ idx' = idx + 1
    /\ UNCHANGED <<env_url, env_auth, grafana_url, headers, folders, runs>>

\* lines 38-48: one iteration whose requests.delete returns a response
DeleteResponds ==
    /\ pc = "loop"
    /\ idx <= Len(folders)
    /\ \E r \in DeleteResponses :
         /\ log' = log \o << DeletingLine(folders[idx]), DeleteRequest(folders[idx]),
                             Response(r.status_code, r.text), ResultLine(folders[idx], r) >>
         /\ remote' = ServerAfter(remote, folders[idx].uid, r)
    /\ idx' = idx + 1
    /\ UNCHANGED <<pc, env_url, env_auth, grafana_url, headers, folders, runs>>

\* variant: the exception of requests.delete is not caught in the loop
DeleteRaisesUncaught ==
    /\ pc = "loop"
    /\ idx <= Len(folders)
    /\ log' = log \o << DeletingLine(folders[idx]), DeleteRequest(folders[idx]), Raised,
                        Console("traceback", folders[idx].title, "", 0, "transport") >>
    /\ remote' = remote
    /\ pc' = "crashed"
    /\ UNCHANGED <<env_url, env_auth, grafana_url, headers, folders, idx, runs>>

\* lines 38-44, 49-50: one iteration whose requests.delete raises (the request
\* did not reach the server, which keeps the folder)
DeleteRaises ==
    /\ pc = "loop"
    /\ idx <= Len(folders)
    /\ log' = log \o << DeletingLine(folders[idx]), DeleteRequest(folders[idx]), Raised,
                        Console("delete_error", folders[idx].title, "", 0, "transport") >>
    /\ remote' = remote
    /\ idx' = idx + 1
    /\ UNCHANGED <<pc, env_url, env_auth, grafana_url, headers, folders, runs>>

\* line 38: the for loop is exhausted, clean_folders returns
LoopExit ==
    /\ pc = "loop"
    /\ idx > Len(folders)
    /\ pc' = "done"
    /\ UNCHANGED <<env_url, env_auth, grafana_url, headers, folders, idx, remote, log, runs>>

\* lines 52-53: the script is run again against the same server
Rerun ==
    /\ pc \in {"done", "crashed"}
    /\ runs < MaxRuns
    /\ runs' = runs + 1
    /\ pc' = "start"
    /\ grafana_url' = <<>>
    /\ headers' = <<>>
    /\ folders' = <<>>
    /\ idx' = 0
    /\ log' = <<>>
    /\ UNCHANGED <<env_url, env_auth, remote>>

Step ==
    \/ Banner
    \/ Configure
    \/ ListRaises
    \/ ListResponds
    \/ DeleteResponds
    \/ DeleteRaises
    \/ LoopExit

Next == Step \/ Rerun

Spec == Init /\ [][Next]_vars

\* The runs that exercise the configuration: every URL and credential, one folder.
InitCfg ==
    /\ pc = "start"
    /\ env_url \in UrlInputs
    /\ env_auth \in AuthInputs
    /\ grafana_url = <<>>
    /\ headers = <<>>
    /\ folders = <<>>
    /\ idx = 0
    /\ remote = << Folder("1", "Team") >>
    /\ log = <<>>
    /\ runs = 1

SpecCfg == InitCfg /\ [][Next]_vars

\* Every remote call returns and the interpreter keeps running the script.
LiveSpec == Init /\ [][Next]_vars /\ WF_vars(Step)

(* ---------------------- reading the trace of a run -------------------- *)
Terminal == pc \in {"done", "crashed"}
OfKind(ks) == SelectSeq(log, LAMBDA e : e.kind \in ks)
DeleteAttempts == OfKind({"DELETE"})
Outcomes == OfKind({"deleted", "failed", "delete_error"})
Listed == OfKind({"found"}) # <<>>
NonGeneral(fs) == SelectSeq(fs, LAMBDA f : f.title # "General")
OnlyGeneral(fs) == NonGeneral(fs) = <<>>
UidsOf(fs) == [k \in DOMAIN fs |-> fs[k].uid]
TitlesOf(fs) == [k \in DOMAIN fs |-> fs[k].title]
\* the answer to the list request: the event after the GET
ListAnswer == log[4]
ListAnswered == Len(log) >= 4 /\ log[3].kind = "GET"
\* the list call succeeded: answered 200 with a listing that was parsed
ListSucceeded == Listed /\ ListAnswer.kind = "response" /\ ListAnswer.n = 200
\* the value the script read for each setting
ConfiguredUrl == get_env_var(env_url, TypedUrl)
ConfiguredAuth == get_env_var(env_auth, TypedAuth)
RequestEvents == OfKind({"GET", "DELETE"})
\* the part of a request URL in front of the API path
BaseOf(e) ==
    SubSeq(e.url, 1, Len(e.url) - (IF e.kind = "GET" THEN Len(ListPath) ELSE Len(DeletePath(e.uid))))

(* ------------------------------ claims -------------------------------- *)

\* C1: for every listing returned by a successful list call, no delete request
\* is ever issued for a folder of the listing whose title is exactly "General",
\* wherever it sits in the listing.
C1_GeneralNeverDeleted ==
    \A i \in DOMAIN log :
        (ListSucceeded /\ log[i].kind = "DELETE") =>
            \A k \in DOMAIN folders :
                folders[k].uid = log[i].uid => folders[k].title # "General"

\* C2: a complete run over a listing with N folders not named "General" issues
\* exactly N delete attempts and reports exactly N outcomes, one per such
\* folder, in the order of the listing.
C2_OnePerNonGeneral ==
    (pc = "done" /\ ListSucceeded) =>
        /\ UidsOf(DeleteAttempts) = UidsOf(NonGeneral(folders))
        /\ TitlesOf(Outcomes) = TitlesOf(NonGeneral(folders))

\* C3 (as stated): when the list call raises or is answered with a status that
\* is not a success (not 2xx), no delete is issued, exactly one fatal error is
\* reported and no per-folder outcome is produced.
C3_NonSuccessListAborts ==
    (ListAnswered /\ (ListAnswer.kind = "raised" \/ ListAnswer.n < 200 \/ ListAnswer.n >= 300)) =>
        /\ DeleteAttempts = <<>>
        /\ Len(OfKind({"list_error", "traceback"})) = 1
        /\ Outcomes = <<>>
        /\ Terminal

\* C3 (amended): when the list call raises or is answered with a 4xx or 5xx
\* status, no delete is issued, exactly one fatal error line is printed, no
\* per-folder line is produced and the run has returned.
C3_FailedListAborts ==
    (ListAnswered /\ (ListAnswer.kind = "raised" \/ (ListAnswer.n >= 400 /\ ListAnswer.n < 600))) =>
        /\ DeleteAttempts = <<>>
        /\ OfKind({"list_error"}) # <<>>
        /\ Len(OfKind({"list_error", "traceback"})) = 1
        /\ OfKind({"found", "deleting", "deleted", "failed", "delete_error"}) = <<>>
        /\ pc = "done"

C3_Witness ==
    /\ pc = "done"
    /\ ListAnswered
    /\ ListAnswer.kind = "response" /\ ListAnswer.n = 401
    /\ Len(remote) >= 2
    /\ DeleteAttempts = <<>>

\* the four events of the k-th iteration of the loop, as laid out in the log
\* after the five events of the banner and the listing
IterAt(k) == 5 + 4 * (k - 1)
Iterations == IF Listed THEN (Len(log) - 5) \div 4 ELSE 0

\* C4: failure isolation. When the run has ended after a successful listing,
\* every folder of the listing was attempted, in order, whatever the earlier
\* deletes gave; a delete that raised or was answered with another status than
\* 200 is reported as failed, and each folder's outcome is decided by its own
\* answer alone (succeeded when that answer is 200).
C4_FailureIsolation ==
    (Terminal /\ Listed) =>
        /\ UidsOf(DeleteAttempts) = UidsOf(folders)
        /\ TitlesOf(Outcomes) = TitlesOf(folders)
        /\ \A k \in DOMAIN folders :
             LET answer == log[IterAt(k) + 3]
                 outcome == Outcomes[k]
             IN  /\ (answer.kind = "response" /\ answer.n = 200) => outcome.kind = "deleted"
                 /\ (answer.kind = "raised" \/ answer.n # 200) =>
                        outcome.kind \in {"failed", "delete_error"}

C4_Witness ==
    /\ pc = "done"
    /\ Len(folders) = 3
    /\ Len(Outcomes) = 3
    /\ Outcomes[1].kind = "delete_error"
    /\ Outcomes[2].kind = "deleted"
    /\ Outcomes[3].kind = "failed"

\* C5: a delete attempt is reported as succeeded exactly when its response has
\* status 200; every other returned status is reported as a failure carrying
\* that status and the response body, and the run goes on.
C5_SuccessIff200 ==
    \A i \in DOMAIN log :
        (log[i].kind = "DELETE" /\ log[i + 1].kind = "response") =>
            /\ (log[i + 2].kind = "deleted") <=> (log[i + 1].n = 200)
            /\ log[i + 1].n # 200 =>
                 /\ log[i + 2].kind = "failed"
                 /\ log[i + 2].n = log[i + 1].n
                 /\ log[i + 2].text = log[i + 1].text
            /\ log[i + 2].title = log[i - 1].title
            /\ pc \in {"loop", "done"}

C5_Witness ==
    /\ pc = "done"
    /\ Len(Outcomes) = 2
    /\ Outcomes[1].kind = "failed" /\ Outcomes[1].n = 403 /\ Outcomes[1].text = "forbidden"
    /\ Outcomes[2].kind = "failed" /\ Outcomes[2].n = 404 /\ Outcomes[2].text = "not found"

\* C6: a second run whose listing is empty or holds only "General" issues no
\* delete attempt and leaves the remote as it found it.
C6_SecondRunIdle ==
    (runs >= 2 /\ ListSucceeded /\ OnlyGeneral(folders)) =>
        /\ DeleteAttempts = <<>>
        /\ remote = folders

\* C9: the banner comes before any request; the count comes after the answer
\* to the list request and before any delete request, and is the length of the
\* listing; each delete request is preceded by its folder's "deleting" line and
\* followed by its answer and exactly one result line, after which the next
\* folder, if any, starts.
C9_EventOrder ==
    /\ \A i \in DOMAIN log :
         log[i].kind \in {"GET", "DELETE"} => (i > 1 /\ log[1].kind = "warning")
    /\ \A i \in DOMAIN log :
         log[i].kind = "found" =>
            /\ log[i - 2].kind = "GET" /\ log[i - 1].kind = "response"
            /\ log[i].n = Len(folders)
            /\ \A j \in 1..i : log[j].kind # "DELETE"
    /\ \A i \in DOMAIN log :
         log[i].kind = "DELETE" =>
            /\ \E j \in 1..i : log[j].kind = "found"
            /\ log[i - 1].kind = "deleting" /\ log[i - 1].uid = log[i].uid
            /\ i + 2 <= Len(log)
            /\ log[i + 1].kind \in {"response", "raised"}
            /\ log[i + 2].kind \in {"deleted", "failed", "delete_error"}
            /\ log[i + 2].title = log[i - 1].title
            /\ i + 3 <= Len(log) => log[i + 3].kind = "deleting"
    /\ Len(Outcomes) = Len(DeleteAttempts)
    /\ Len(OfKind({"deleting"})) = Len(DeleteAttempts)
    /\ Len(OfKind({"found"})) <= 1

C9_Witness ==
    /\ pc = "done"
    /\ Len(folders) = 3
    /\ Len(DeleteAttempts) = 3
    /\ folders[2].title = "General"
    /\ Outcomes[1].kind = "deleted" /\ Outcomes[2].kind = "failed" /\ Outcomes[3].kind = "delete_error"

\* how a run may end: at the list step with no delete issued, or after the
\* loop has gone through every entry of the listing
AbortedAtList == ~Listed /\ DeleteAttempts = <<>> /\ OfKind({"list_error", "traceback"}) # <<>>
FinishedLoop == Listed /\ Len(DeleteAttempts) = Len(folders) /\ Len(Outcomes) = Len(folders)

\* C10: every run terminates, and it ends either aborted at the list step with
\* no delete issued or after the loop has processed every entry of the listing.
C10_Terminates ==
    /\ [](Terminal => (AbortedAtList \/ FinishedLoop))
    /\ (~Terminal) ~> Terminal

C10_Witness ==
    /\ pc = "done"
    /\ runs = 2
    /\ FinishedLoop
    /\ Len(folders) = 2
    /\ Outcomes[1].kind = "failed"

\* C7: the Authorization header of every request is the credential unchanged
\* when the credential starts with "Basic" or "Bearer", and "Bearer " followed
\* by the credential when it contains neither literal; the list request and
\* every delete request carry the same header.
C7_AuthorizationHeader ==
    /\ \A i \in DOMAIN RequestEvents :
         LET sent == RequestEvents[i].auth
         IN  /\ (StartsWith(BasicLit, ConfiguredAuth) \/ StartsWith(BearerLit, ConfiguredAuth))
                    => sent = ConfiguredAuth
             /\ (~Contains(BasicLit, ConfiguredAuth) /\ ~Contains(BearerLit, ConfiguredAuth))
                    => sent = <<"B", "e", "a", "r", "e", "r", " ">> \o ConfiguredAuth
    /\ \A i, j \in DOMAIN RequestEvents : RequestEvents[i].auth = RequestEvents[j].auth

C7_Witness ==
    /\ pc = "done"
    /\ Len(RequestEvents) = 2
    /\ RequestEvents[2].kind = "DELETE"
    /\ env_auth = <<"B", "a", "s", "i", "c", " ">>
    /\ RequestEvents[2].auth = env_auth

\* C8 (as stated): the base of the list URL and of every delete URL does not
\* end with "/", and a configured URL without a trailing "/" is used unchanged.
C8_BaseNeverEndsWithSlash ==
    \A i \in DOMAIN RequestEvents :
        LET base == BaseOf(RequestEvents[i])
        IN  /\ ~EndsWithSlash(base)
            /\ ~EndsWithSlash(ConfiguredUrl) => base = ConfiguredUrl

\* C8 (amended): the base of the list URL and of every delete URL is the
\* configured URL without its last character when that character is "/", and
\* the configured URL unchanged otherwise; only one "/" is removed.
C8_OneSlashStripped ==
    \A i \in DOMAIN RequestEvents :
        LET base == BaseOf(RequestEvents[i])
            n == Len(ConfiguredUrl)
        IN  /\ (n > 0 /\ ConfiguredUrl[n] = "/") => base = [k \in 1..(n - 1) |-> ConfiguredUrl[k]]
            /\ (n = 0 \/ ConfiguredUrl[n] # "/") => base = ConfiguredUrl
            /\ RequestEvents[i].url = base \o
                 (IF RequestEvents[i].kind = "GET"
                  THEN <<"/", "api", "/", "folders">>
                  ELSE <<"/", "api", "/", "folders", "/", RequestEvents[i].uid>>)

C8_Witness ==
    /\ pc = "done"
    /\ env_url = <<"h", "/", "/">>
    /\ Len(RequestEvents) = 2
    /\ RequestEvents[2].kind = "DELETE"
    /\ BaseOf(RequestEvents[2]) = <<"h", "/">>

====
